---- MODULE Spec2Model ----
(***************************************************************************)
(* A model of the speech-emotion backend (src/backend):                    *)
(*   - the inference fallback chain in its three implementations           *)
(*       app.py  proxy_huggingface                      ("app")            *)
(*       api/inference_service.py  InferenceService     ("svc")            *)
(*       external_inference_handler.py  DataStreamProcessor ("dsp")        *)
(*   - the temporal emotion smoother of model_service.py                   *)
(*   - the pure audio functions of audio_processor.py                      *)
(* Each part has its own specification over the shared variables; the      *)
(* variables of the other parts stay at their initial value.               *)
(***************************************************************************)
EXTENDS Integers, Sequences, FiniteSets, TLC

VARIABLES
  libs_installed,         \* whether "import torch / transformers" succeeds in this deployment
  TRANSFORMERS_AVAILABLE, \* app.py module global: "unset" until import_model_modules() ran
  fs,                     \* files on disk: path -> id of the request whose bytes it holds (0: absent)
  call,                   \* per request: the position and locals of the handler serving it
  model_service,          \* app.py module global: the one ModelService (its smoother fields)
  calls,                  \* log of the predict_emotion calls made on model_service
  stream,                 \* per streaming session: the chunks it sent and the messages emitted to it
  analyzed,               \* the responses of the batch endpoint /api/analyze
  audio_call              \* the last AudioProcessor call: function, waveform and outcome

chainVars == <<libs_installed, TRANSFORMERS_AVAILABLE, fs, call>>
serviceVars == <<model_service, calls, stream, analyzed>>
audioVars == <<audio_call>>
vars == <<libs_installed, TRANSFORMERS_AVAILABLE, fs, call, model_service, calls, stream,
          analyzed, audio_call>>

(***************************************************************************)
(* Bounds and program constants of the fallback chain                      *)
(***************************************************************************)
NReq == 1                 \* concurrent proxy requests
NTimestamps == 1          \* distinct millisecond timestamps seen by _get_temp_path
max_retries == 3          \* remote attempts per call
backoff_base == 2         \* wait_time = 2 ** retry_count

Reqs == 1..NReq

\* Paths of the temporary audio file, one naming scheme per implementation.
AppTempPath == <<"temp_audio.wav", 0>>
DspTempPath == <<"aux_data.tmp", 0>>
\* _get_temp_path: temp_<int(time.time()*1000)>.wav
_get_temp_path(ts) == <<"temp.wav", ts>>
Paths == {AppTempPath, DspTempPath} \cup {_get_temp_path(ts) : ts \in 1..NTimestamps}
NoPath == <<"", 0>>

\* What one requests.post can end in: an HTTP answer, a transport timeout, a
\* connection error, or any other exception (another RequestException, or
\* response.json() failing on the body).
StatusCodes == {200, 400, 503}
NoError == [kind |-> "none", code |-> 0]
Outcomes ==
  [kind : {"http"}, code : StatusCodes]
    \cup {[kind |-> "timeout", code |-> 0],
          [kind |-> "conn", code |-> 0],
          [kind |-> "exc", code |-> 0]}

\* response.ok: status code below 400
ResponseOk(o) == o.kind = "http" /\ o.code < 400

\* A retry loop that treats every failed HTTP answer as "warming up".
RetryableStatusAnyError(o) == o.kind = "http" /\ ~ResponseOk(o)

\* elif response.status_code == 503: the one status that is retried
RetryableStatus(o) == o.kind = "http" /\ o.code = 503

\* A retry loop that catches every exception of the request.
RetryableTransportAnyException(o) == o.kind # "http"

\* except requests.exceptions.Timeout / requests.exceptions.ConnectionError
RetryableTransport(o) == o.kind \in {"timeout", "conn"}

\* The fixed synthetic distribution, scores in hundredths.
fallback_result == [neutral |-> 80, happy |-> 10, sad |-> 5, angry |-> 5]
NoDist == [neutral |-> 0, happy |-> 0, sad |-> 0, angry |-> 0]

NoResult ==
  [kind |-> "none", status |-> "none", http |-> 0, meta |-> "none",
   reason |-> "none", upstream |-> 0, body |-> NoError, detail |-> NoError,
   dist |-> NoDist, exc |-> "none"]

\* The value a handler returns (or the exception it ends with).
\*   kind     which exit path produced it
\*   status   the "status" field of the JSON body
\*   http     the HTTP status of the Flask response (0: a plain dict, svc)
\*   meta     the flag of the "_meta" object ("none": no _meta)
\*   reason   what _meta's reason names; upstream/body: the upstream answer
\*   detail   the last_error quoted in the reason
\*   exc      the exception that left the handler ("none": it returned)
Result(kind, status, http, meta, reason, upstream, body, detail, dist, exc) ==
  [kind |-> kind, status |-> status, http |-> http, meta |-> meta,
   reason |-> reason, upstream |-> upstream, body |-> body, detail |-> detail,
   dist |-> dist, exc |-> exc]

IdleCall ==
  [impl |-> "none", pc |-> "idle", path |-> NoPath, wrote |-> FALSE,
   retry_count |-> 0, last_error |-> NoError, sent |-> 0, last_outcome |-> NoError,
   only503 |-> TRUE, sleeps |-> <<>>,
   local |-> "none",
   worker |-> "none", worker_result |-> "none",
   timer |-> "off", timeout_occurred |-> FALSE, kbint |-> FALSE,
   alarm |-> FALSE,
   result |-> NoResult]

\* A cleanup that leaves the file where it is.
RemoveSkipped(f, path) == f

\* os.remove(path) guarded by os.path.exists / try-except: the file is gone
\* afterwards, whoever wrote it.
Remove(f, path) == IF path \in DOMAIN f THEN [f EXCEPT ![path] = 0] ELSE f

\* with open(path, 'wb') as f: f.write(audio_bytes)
WriteFile(f, path, r) == [f EXCEPT ![path] = r]

\* A backoff that grows linearly: wait_time = 2 * retry_count.
BackoffLinear(c, o) ==
  [c EXCEPT !.retry_count = @ + 1,
            !.last_error = o,
            !.sleeps = Append(@, backoff_base * (c.retry_count + 1))]

\* retry_count += 1; last_error = ...; wait_time = 2 ** retry_count; time.sleep(wait_time)
Backoff(c, o) ==
  [c EXCEPT !.retry_count = @ + 1,
            !.last_error = o,
            !.sleeps = Append(@, backoff_base ^ (c.retry_count + 1))]

\* One requests.post was made and ended in outcome o. only503 records whether
\* every answer so far was HTTP 503.
Sent(c, o) ==
  [c EXCEPT !.sent = @ + 1,
            !.last_outcome = o,
            !.only503 = @ /\ o.kind = "http" /\ o.code = 503]

Finish(c, res) == [c EXCEPT !.pc = "done", !.result = res]

Upd(r, c) == call' = [call EXCEPT ![r] = c]

\* The body returned by the outer "except Exception" of a handler.
InternalError(flag, http) ==
  Result("internal_error", "error", http, flag, "internal", 0, NoError, NoError,
         NoDist, "none")

\* The body returned when every remote attempt ended in a retryable failure.
Synthetic(flag, c, http) ==
  Result("synthetic", "success", http, flag, "exhausted", 0, NoError,
         c.last_error, fallback_result, "none")

\* The body returned for a non-2xx answer other than 503.
Terminal(flag, o, http) ==
  Result("terminal_error", "error", http, flag, "api_error", o.code, o, NoError,
         NoDist, "none")

Success(kind, http) ==
  Result(kind, "success", http, "none", "none", 0, NoError, NoError, NoDist, "none")

BadRequest(http) ==
  Result("bad_request", "error", http, "none", "none", 0, NoError, NoError,
         NoDist, "none")

Raised(exc) ==
  Result("raised", "none", 0, "none", "none", 0, NoError, NoError, NoDist, exc)

AudioInputs == {"valid", "badpad", "missing"}
KeyInputs == {"present", "missing"}

(***************************************************************************)
(* app.py                                                                  *)
(***************************************************************************)
\* import_model_modules(): sets the module global TRANSFORMERS_AVAILABLE.
import_model_modules ==
  /\ TRANSFORMERS_AVAILABLE = "unset"
  /\ TRANSFORMERS_AVAILABLE' = IF libs_installed THEN "yes" ELSE "no"
  /\ UNCHANGED <<libs_installed, fs, call>>

\* proxy_huggingface, from the request to the temporary file on disk.
AppStart(r) ==
  /\ call[r].pc = "idle"
  /\ \E audio \in AudioInputs, key \in KeyInputs :
       LET c == [call[r] EXCEPT !.impl = "app"] IN
       IF audio = "missing" THEN
         Upd(r, Finish(c, BadRequest(400))) /\ UNCHANGED fs
       ELSE IF key = "missing" THEN
         Upd(r, Finish(c, BadRequest(401))) /\ UNCHANGED fs
       ELSE IF audio = "badpad" THEN
         \* base64.b64decode raises; temp_file_path is not bound yet, the
         \* cleanup in the outer handler fails silently
         Upd(r, Finish(c, InternalError("using_fallback", 500))) /\ UNCHANGED fs
       ELSE
         /\ fs' = WriteFile(fs, AppTempPath, r)
         /\ Upd(r, [c EXCEPT !.pc = "local", !.path = AppTempPath, !.wrote = TRUE])
  /\ UNCHANGED <<libs_installed, TRANSFORMERS_AVAILABLE>>

AppLocalOutcomes == {"pipeline_raises", "result", "timeout", "classifier_raises"}

\* proxy_huggingface, the local transformers attempt under signal.alarm(25).
AppLocal(r) ==
  /\ call[r].pc = "local" /\ call[r].impl = "app"
  /\ LET c == call[r] IN
     IF TRANSFORMERS_AVAILABLE = "unset" THEN
       \* NameError, caught by the outer handler
       /\ fs' = Remove(fs, c.path)
       /\ Upd(r, Finish([c EXCEPT !.local = "unconfigured"],
                        InternalError("using_fallback", 500)))
     ELSE IF TRANSFORMERS_AVAILABLE = "no" THEN
       /\ Upd(r, [c EXCEPT !.pc = "rest", !.local = "unconfigured"])
       /\ UNCHANGED fs
     ELSE
       \E out \in AppLocalOutcomes, mainthread \in BOOLEAN :
         IF out = "pipeline_raises" \/ ~mainthread THEN
           \* pipeline(...) raises, or signal.signal raises ValueError
           \* outside the main thread: the alarm was never set
           /\ Upd(r, [c EXCEPT !.pc = "rest", !.local = "raised"])
           /\ UNCHANGED fs
         ELSE IF out = "result" THEN
           /\ fs' = Remove(fs, c.path)
           /\ Upd(r, Finish([c EXCEPT !.local = "success"], Success("local_success", 200)))
         ELSE IF out = "timeout" THEN
           \* timeout_handler raised TimeoutError; signal.alarm(0); re-raised
           \* and caught by "except Exception as pipeline_error"
           /\ Upd(r, [c EXCEPT !.pc = "rest", !.local = "timeout"])
           /\ UNCHANGED fs
         ELSE
           \* classifier raises another exception: signal.alarm(0) is skipped
           /\ Upd(r, [c EXCEPT !.pc = "rest", !.local = "raised", !.alarm = TRUE])
           /\ UNCHANGED fs
  /\ UNCHANGED <<libs_installed, TRANSFORMERS_AVAILABLE>>

\* proxy_huggingface, one pass of "while retry_count < max_retries".
AppRest(r) ==
  /\ call[r].pc = "rest" /\ call[r].impl = "app"
  /\ call[r].retry_count < max_retries
  /\ \E o \in Outcomes :
       LET c == Sent(call[r], o) IN
       IF ResponseOk(o) THEN
         /\ fs' = Remove(fs, c.path)
         /\ Upd(r, Finish(c, Success("remote_success", 200)))
       ELSE IF RetryableStatus(o) THEN
         Upd(r, Backoff(c, o)) /\ UNCHANGED fs
       ELSE IF o.kind = "http" THEN
         /\ fs' = Remove(fs, c.path)
         /\ Upd(r, Finish(c, Terminal("using_fallback", o, o.code)))
       ELSE IF RetryableTransport(o) THEN
         Upd(r, Backoff(c, o)) /\ UNCHANGED fs
       ELSE
         \* any other exception reaches the outer handler
         /\ fs' = Remove(fs, c.path)
         /\ Upd(r, Finish(c, InternalError("using_fallback", 500)))
  /\ UNCHANGED <<libs_installed, TRANSFORMERS_AVAILABLE>>

\* proxy_huggingface, after the loop: the synthetic fallback.
AppExhausted(r) ==
  /\ call[r].pc = "rest" /\ call[r].impl = "app"
  /\ ~(call[r].retry_count < max_retries)
  /\ fs' = Remove(fs, call[r].path)
  /\ Upd(r, Finish(call[r], Synthetic("using_fallback", call[r], 200)))
  /\ UNCHANGED <<libs_installed, TRANSFORMERS_AVAILABLE>>

\* The SIGALRM left armed by AppLocal goes off while the handler sleeps in a
\* backoff: timeout_handler raises TimeoutError, caught by the outer handler.
AppAlarm(r) ==
  /\ call[r].pc = "rest" /\ call[r].impl = "app"
  /\ call[r].alarm /\ Len(call[r].sleeps) > 0
  /\ fs' = Remove(fs, call[r].path)
  /\ Upd(r, Finish([call[r] EXCEPT !.alarm = FALSE],
                   InternalError("using_fallback", 500)))
  /\ UNCHANGED <<libs_installed, TRANSFORMERS_AVAILABLE>>

(***************************************************************************)
(* api/inference_service.py                                                *)
(***************************************************************************)
\* InferenceService.process_audio, up to the temporary file on disk.
SvcStart(r) ==
  /\ call[r].pc = "idle"
  /\ \E audio \in AudioInputs, key \in KeyInputs, ts \in 1..NTimestamps :
       LET c == [call[r] EXCEPT !.impl = "svc"] IN
       IF audio = "missing" \/ key = "missing" THEN
         Upd(r, Finish(c, BadRequest(0))) /\ UNCHANGED fs
       ELSE IF audio = "badpad" THEN
         \* base64.b64decode stands before the try block: binascii.Error
         \* leaves process_audio
         Upd(r, Finish(c, Raised("binascii.Error"))) /\ UNCHANGED fs
       ELSE
         /\ fs' = WriteFile(fs, _get_temp_path(ts), r)
         /\ Upd(r, [c EXCEPT !.pc = IF libs_installed THEN "local" ELSE "rest",
                            !.local = IF libs_installed THEN "none" ELSE "unconfigured",
                            !.path = _get_temp_path(ts), !.wrote = TRUE])
  /\ UNCHANGED <<libs_installed, TRANSFORMERS_AVAILABLE>>

\* _process_with_transformers up to timer.start(): pipeline(...) raises, or the
\* worker thread and the 25 s timer are started.
SvcLocal(r) ==
  /\ call[r].pc = "local" /\ call[r].impl = "svc"
  /\ \/ Upd(r, [call[r] EXCEPT !.pc = "rest", !.local = "raised"])
     \/ Upd(r, [call[r] EXCEPT !.pc = "join", !.worker = "running", !.timer = "armed"])
  /\ UNCHANGED <<libs_installed, TRANSFORMERS_AVAILABLE, fs>>

WorkerResults == {"result", "empty", "raised"}

\* The handler is past its join: it reads the worker's result no more. A
\* worker still running is a daemon thread left behind.
Joined(c) ==
  [c EXCEPT !.worker = IF @ = "running" THEN "abandoned" ELSE "joined",
            !.worker_result = "none"]

\* run_inference / _process_task: the worker thread ends while the handler
\* waits in join.
WorkerFinish(r) ==
  /\ call[r].worker = "running"
  /\ \E res \in WorkerResults :
       Upd(r, [call[r] EXCEPT !.worker = "finished",
                             !.worker_result = res])
  /\ UNCHANGED <<libs_installed, TRANSFORMERS_AVAILABLE, fs>>

\* threading.Timer.run: the 25 s wait ends with "finished" not set.
TimerExpire(r) ==
  /\ call[r].timer = "armed"
  /\ Upd(r, [call[r] EXCEPT !.timer = "committed"])
  /\ UNCHANGED <<libs_installed, TRANSFORMERS_AVAILABLE, fs>>

\* timeout_function: timeout_occurred = True; _thread.interrupt_main().
\* The interrupt reaches the handler only if the handler runs in the main
\* thread and has not returned yet.
timeout_function(r) ==
  /\ call[r].timer = "committed"
  /\ \E mainthread \in BOOLEAN :
       Upd(r, [call[r] EXCEPT !.timer = "fired", !.timeout_occurred = TRUE,
                             !.kbint = mainthread /\ call[r].pc # "done"])
  /\ UNCHANGED <<libs_installed, TRANSFORMERS_AVAILABLE, fs>>

\* What process_audio does with the outcome of _process_with_transformers,
\* from inference_thread.join(30) on. c is the call after timer.cancel().
SvcAfterJoin(c) ==
  IF c.kbint \/ c.timeout_occurred THEN
    \* KeyboardInterrupt or TimeoutError inside the try: TimeoutError is
    \* raised and process_audio falls back to the REST API
    Joined([c EXCEPT !.pc = "rest", !.local = "timeout", !.kbint = FALSE])
  ELSE IF c.worker_result = "result" THEN
    Joined(Finish([c EXCEPT !.local = "success"], Success("local_success", 0)))
  ELSE IF c.worker_result = "empty" THEN
    \* "if result:" is false for an empty list
    Joined([c EXCEPT !.pc = "rest", !.local = "empty"])
  ELSE
    \* "Inference failed to produce a result"
    Joined([c EXCEPT !.pc = "rest", !.local = "raised"])

\* inference_thread.join(30) returns: the worker ended, or 30 s passed (the
\* 25 s timer has fired by then); timer.cancel() stops a timer still waiting.
SvcJoin(r) ==
  /\ call[r].pc = "join" /\ call[r].impl = "svc"
  /\ call[r].worker = "finished" \/ call[r].timer = "fired"
  /\ LET c == [call[r] EXCEPT !.timer = IF @ = "armed" THEN "cancelled" ELSE @]
         d == SvcAfterJoin(c) IN
     /\ Upd(r, d)
     /\ fs' = IF d.pc = "done" THEN Remove(fs, c.path) ELSE fs
  /\ UNCHANGED <<libs_installed, TRANSFORMERS_AVAILABLE>>

\* KeyboardInterrupt delivered while process_audio is in the REST stage: it is
\* no Exception, so only the finally clause runs and it leaves process_audio.
SvcInterrupt(r) ==
  /\ call[r].pc = "rest" /\ call[r].impl = "svc"
  /\ call[r].kbint
  /\ fs' = Remove(fs, call[r].path)
  /\ Upd(r, Finish([call[r] EXCEPT !.kbint = FALSE], Raised("KeyboardInterrupt")))
  /\ UNCHANGED <<libs_installed, TRANSFORMERS_AVAILABLE>>

\* _process_with_rest_api, one pass of "while retry_count < max_retries";
\* process_audio's finally clause removes the file on every return.
SvcRest(r) ==
  /\ call[r].pc = "rest" /\ call[r].impl = "svc"
  /\ ~call[r].kbint
  /\ call[r].retry_count < max_retries
  /\ \E o \in Outcomes :
       LET c == Sent(call[r], o) IN
       IF ResponseOk(o) THEN
         /\ fs' = Remove(fs, c.path)
         /\ Upd(r, Finish(c, Success("remote_success", 0)))
       ELSE IF RetryableStatus(o) THEN
         Upd(r, Backoff(c, o)) /\ UNCHANGED fs
       ELSE IF o.kind = "http" THEN
         /\ fs' = Remove(fs, c.path)
         /\ Upd(r, Finish(c, Terminal("using_fallback", o, 0)))
       ELSE IF RetryableTransport(o) THEN
         Upd(r, Backoff(c, o)) /\ UNCHANGED fs
       ELSE
         \* caught by process_audio's "except Exception"
         /\ fs' = Remove(fs, c.path)
         /\ Upd(r, Finish(c, InternalError("using_fallback", 0)))
  /\ UNCHANGED <<libs_installed, TRANSFORMERS_AVAILABLE>>

\* _process_with_rest_api after the loop: the synthetic fallback.
SvcExhausted(r) ==
  /\ call[r].pc = "rest" /\ call[r].impl = "svc"
  /\ ~call[r].kbint
  /\ ~(call[r].retry_count < max_retries)
  /\ fs' = Remove(fs, call[r].path)
  /\ Upd(r, Finish(call[r], Synthetic("using_fallback", call[r], 0)))
  /\ UNCHANGED <<libs_installed, TRANSFORMERS_AVAILABLE>>

(***************************************************************************)
(* external_inference_handler.py                                           *)
(***************************************************************************)
\* DataStreamProcessor.process_request, up to the temporary file on disk.
DspStart(r) ==
  /\ call[r].pc = "idle"
  /\ \E audio \in AudioInputs, key \in KeyInputs :
       LET c == [call[r] EXCEPT !.impl = "dsp"] IN
       IF audio = "missing" \/ key = "missing" \/ audio = "badpad" THEN
         \* "Missing required data payload", "Missing authentication token",
         \* "Invalid data format": 400 each, before the file is written
         Upd(r, Finish(c, BadRequest(400))) /\ UNCHANGED fs
       ELSE
         /\ fs' = WriteFile(fs, DspTempPath, r)
         /\ Upd(r, [c EXCEPT !.pc = IF libs_installed THEN "local" ELSE "rest",
                            !.local = IF libs_installed THEN "none" ELSE "unconfigured",
                            !.path = DspTempPath, !.wrote = TRUE])
  /\ UNCHANGED <<libs_installed, TRANSFORMERS_AVAILABLE>>

\* process_request: pipeline(...) raises, or the worker thread is started.
DspLocal(r) ==
  /\ call[r].pc = "local" /\ call[r].impl = "dsp"
  /\ \/ Upd(r, [call[r] EXCEPT !.pc = "rest", !.local = "raised"])
     \/ Upd(r, [call[r] EXCEPT !.pc = "join", !.worker = "running"])
  /\ UNCHANGED <<libs_installed, TRANSFORMERS_AVAILABLE, fs>>

\* process_request after task.join(timeout=25): the worker is still alive
\* (TimeoutError, the worker is left running), or it ended with or without
\* a result.
DspJoin(r) ==
  /\ call[r].pc = "join" /\ call[r].impl = "dsp"
  /\ LET c == call[r] IN
     IF c.worker = "running" THEN
       /\ Upd(r, Joined([c EXCEPT !.pc = "rest", !.local = "timeout",
                                  !.timeout_occurred = TRUE]))
       /\ UNCHANGED fs
     ELSE IF c.worker_result = "result" THEN
       /\ fs' = Remove(fs, c.path)
       /\ Upd(r, Joined(Finish([c EXCEPT !.local = "success"],
                               Success("local_success", 200))))
     ELSE
       /\ Upd(r, Joined([c EXCEPT !.pc = "rest",
                                 !.local = IF c.worker_result = "empty" THEN "empty"
                                           ELSE "raised"]))
       /\ UNCHANGED fs
  /\ UNCHANGED <<libs_installed, TRANSFORMERS_AVAILABLE>>

\* _standard_processing, one pass of "while attempt < max_attempts".
DspRest(r) ==
  /\ call[r].pc = "rest" /\ call[r].impl = "dsp"
  /\ call[r].retry_count < max_retries
  /\ \E o \in Outcomes :
       LET c == Sent(call[r], o) IN
       IF ResponseOk(o) THEN
         /\ fs' = Remove(fs, c.path)
         /\ Upd(r, Finish(c, Success("remote_success", 200)))
       ELSE IF RetryableStatus(o) THEN
         Upd(r, Backoff(c, o)) /\ UNCHANGED fs
       ELSE IF o.kind = "http" THEN
         /\ fs' = Remove(fs, c.path)
         /\ Upd(r, Finish(c, Terminal("using_standard", o, o.code)))
       ELSE IF RetryableTransport(o) THEN
         Upd(r, Backoff(c, o)) /\ UNCHANGED fs
       ELSE
         \* reaches process_request's "except Exception"
         /\ fs' = Remove(fs, c.path)
         /\ Upd(r, Finish(c, InternalError("using_standard", 500)))
  /\ UNCHANGED <<libs_installed, TRANSFORMERS_AVAILABLE>>

\* _standard_processing after the loop: the synthetic fallback.
DspExhausted(r) ==
  /\ call[r].pc = "rest" /\ call[r].impl = "dsp"
  /\ ~(call[r].retry_count < max_retries)
  /\ fs' = Remove(fs, call[r].path)
  /\ Upd(r, Finish(call[r], Synthetic("using_standard", call[r], 200)))
  /\ UNCHANGED <<libs_installed, TRANSFORMERS_AVAILABLE>>

(***************************************************************************)
(* model_service.py: the emotion smoother                                  *)
(*                                                                         *)
(* Floating point is modelled in fixed point, rounding down: probabilities *)
(* in units of 1/100000, confidences (a probability times the boost, which *)
(* is 10 or 13 tenths) in units of 1/1000000, history weights              *)
(* 1 + (0.6*idx)^2 in units of 1/25.                                       *)
(***************************************************************************)
emotions == <<"anger", "disgust", "fear", "happiness", "sadness", "surprise", "neutral">>

\* self.emotions.index(emotion)
EmotionIndex(e) == CHOOSE i \in 1..Len(emotions) : emotions[i] = e

history_maxlen == 8             \* deque(maxlen=8)
min_confidence_threshold == 250000  \* 0.25
floor_confidence == 400000      \* smoothed_confidence = 0.4
high_confidence == 70000        \* probs[...] > 0.7
stream_confidence_threshold == 400000 \* data.get('confidence_threshold', 0.4)

\* A fresh ModelService: ema_probs None (<<>>), empty history, no committed
\* label ("none"), stability count 0.
FreshService ==
  [ema_probs |-> <<>>, emotion_history |-> <<>>,
   current_emotion |-> "none", emotion_stability_count |-> 0]

\* The sum of the entries lo..hi of a sequence of numbers
RECURSIVE SumRange(_, _, _)
SumRange(s, lo, hi) ==
  IF lo > hi THEN 0
  ELSE IF lo = hi THEN s[lo]
  ELSE SumRange(s, lo, (lo + hi) \div 2) + SumRange(s, (lo + hi) \div 2 + 1, hi)

SeqSum(s) == SumRange(s, 1, Len(s))

\* np.argmax: the first index holding the maximum
argmax(v) ==
  CHOOSE i \in 1..Len(v) :
    /\ \A j \in 1..Len(v) : v[j] <= v[i]
    /\ \A j \in 1..(i - 1) : v[j] < v[i]

EmaUpdateRaw(ema, raw) == raw

\* self.ema_alpha * emotion_probs + (1 - self.ema_alpha) * self.ema_probs,
\* alpha = 0.3; the first call takes the raw vector as it is
EmaUpdate(ema, raw) ==
  IF ema = <<>> THEN raw
  ELSE [i \in 1..Len(raw) |-> (3 * raw[i] + 7 * ema[i]) \div 10]

HistoryAppendUnbounded(h, x) == Append(h, x)

\* deque.append with maxlen: the oldest entry is dropped when full
HistoryAppend(h, x) ==
  IF Len(h) < history_maxlen THEN Append(h, x) ELSE Append(Tail(h), x)

\* weight = 1.0 + (idx * 0.6)**2, idx counted from 0, in units of 1/25
Weight(idx) == 25 + 9 * idx * idx

\* confidence_boost: 1.3 above 0.7, else 1.0, in tenths
ConfidenceBoost(p) == IF p > high_confidence THEN 13 ELSE 10

HistoryLabels(h) == {h[k].emotion : k \in 1..Len(h)}

\* emotion_counts[e]: the weights of the history entries labelled e
emotion_counts(h, e) ==
  SeqSum([k \in 1..Len(h) |-> IF h[k].emotion = e THEN Weight(k - 1) ELSE 0])

\* emotion_total_probs[e]: probability * weight * boost over those entries
emotion_total_probs(h, e) ==
  SeqSum([k \in 1..Len(h) |->
            IF h[k].emotion = e
            THEN h[k].probs[EmotionIndex(e)] * Weight(k - 1)
                   * ConfidenceBoost(h[k].probs[EmotionIndex(e)])
            ELSE 0])

\* emotion_total_probs[e] / emotion_counts[e]
AvgConfidence(h, e) == emotion_total_probs(h, e) \div emotion_counts(h, e)

\* The dict keeps its keys in the order of their first history entry, and
\* sorted() is stable: among equal counts the label seen first comes first.
FirstPos(h, e) == CHOOSE k \in 1..Len(h) : h[k].emotion = e /\ \A j \in 1..(k - 1) : h[j].emotion # e

SortedBefore(h, e, f) ==
  \/ emotion_counts(h, e) > emotion_counts(h, f)
  \/ emotion_counts(h, e) = emotion_counts(h, f) /\ FirstPos(h, e) < FirstPos(h, f)

\* sorted_emotions[0][0] among the labels in L
TopOf(h, L) == CHOOSE e \in L : \A f \in L \ {e} : SortedBefore(h, e, f)

\* The winner of the weighted vote: the most frequent label, or the second
\* one when its count is within a factor 1.1 and its confidence is higher.
CloseSecond(h, first, second) ==
  IF /\ 10 * emotion_counts(h, first) < 11 * emotion_counts(h, second)
     /\ AvgConfidence(h, second) > AvgConfidence(h, first)
  THEN second ELSE first

WinnerAfter(h, first) ==
  IF HistoryLabels(h) \ {first} = {} THEN first
  ELSE CloseSecond(h, first, TopOf(h, HistoryLabels(h) \ {first}))

Winner(h) == WinnerAfter(h, TopOf(h, HistoryLabels(h)))

\* switch_threshold in hundredths
SwitchThreshold(current, challenger) ==
  IF current = "neutral" THEN 130
  ELSE IF challenger = "neutral" THEN 110
  ELSE 115

\* The challenger is turned away: the committed label has held for at least
\* 3 calls and fewer than 8, it is still in the history with a positive
\* confidence, and the challenger's confidence is below the threshold.
Rejected(st, h, challenger) ==
  /\ st.current_emotion # "none"
  /\ st.emotion_stability_count >= 3
  /\ emotion_counts(h, st.current_emotion) > 0
  /\ emotion_total_probs(h, st.current_emotion) > 0
  /\ 100 * AvgConfidence(h, challenger)
       < AvgConfidence(h, st.current_emotion)
           * SwitchThreshold(st.current_emotion, challenger)
  /\ st.emotion_stability_count < 8

\* min(1.0, count / 5) applied to the confidence
StabilityScaled(conf, count) == (conf * (IF count < 5 THEN count ELSE 5)) \div 5

\* The second half of _apply_temporal_smoothing: the hysteresis on the
\* committed label, the stability count, the gating of the reported label and
\* the confidence floor.  st already holds the history h with the new entry.
CommitAndReport(st, h, most_frequent_emotion, avg_confidence) ==
  IF st.current_emotion # most_frequent_emotion /\ Rejected(st, h, most_frequent_emotion)
  THEN [service |-> st,
        emotion |-> st.current_emotion,
        confidence |-> AvgConfidence(h, st.current_emotion)]
  ELSE
    LET st2 == IF st.current_emotion # most_frequent_emotion
               THEN [st EXCEPT !.emotion_stability_count = 1,
                               !.current_emotion = most_frequent_emotion]
               ELSE [st EXCEPT !.emotion_stability_count = @ + 1]
        smoothed_emotion ==
          IF st2.emotion_stability_count >= 2 THEN most_frequent_emotion
          ELSE st2.current_emotion
        smoothed_confidence == StabilityScaled(avg_confidence, st2.emotion_stability_count)
    IN
    IF smoothed_confidence < min_confidence_threshold /\ smoothed_emotion # "neutral"
    THEN [service |-> st2, emotion |-> "neutral", confidence |-> floor_confidence]
    ELSE [service |-> st2, emotion |-> smoothed_emotion, confidence |-> smoothed_confidence]

VoteAndReportRaw(st, h, most_frequent_emotion) ==
  [CommitAndReport(st, h, most_frequent_emotion, AvgConfidence(h, most_frequent_emotion))
     EXCEPT !.emotion = h[Len(h)].emotion]

\* The first half: the weighted vote over the history h
VoteAndReport(st, h, most_frequent_emotion) ==
  CommitAndReport(st, h, most_frequent_emotion, AvgConfidence(h, most_frequent_emotion))

AppendAndVote(st, h) == VoteAndReport([st EXCEPT !.emotion_history = h], h, Winner(h))

\* ModelService._apply_temporal_smoothing: the service after the call and the
\* (label, confidence) it returns.
_apply_temporal_smoothing(st, current_raw_emotion, emotion_probs) ==
  AppendAndVote(st, HistoryAppend(st.emotion_history,
                                  [emotion |-> current_raw_emotion, probs |-> emotion_probs]))

\* ModelService.predict_emotion with apply_smoothing=True, from the raw
\* probability vector the network returned.
SmoothEma(st, ema) ==
  _apply_temporal_smoothing([st EXCEPT !.ema_probs = ema], emotions[argmax(ema)], ema)

predict_emotion(st, emotion_probs) == SmoothEma(st, EmaUpdate(st.ema_probs, emotion_probs))


(***************************************************************************)
(* The raw probability vectors the network returns.  The classifier is     *)
(* opaque; the model draws its answers from a small set of vectors, each   *)
(* summing to 1 (100000).                                                  *)
(***************************************************************************)
RawInputs == {"weak_neutral", "strong_neutral", "anger_spike"}

OneHigh(label, top, rest) ==
  [i \in 1..Len(emotions) |-> IF emotions[i] = label THEN top ELSE rest]

\* Near-uniform answers of the network: the top label barely above the rest
FaintInputs == {"faint_anger", "faint_neutral"}

RawVector(v) ==
  IF v = "weak_neutral" THEN OneHigh("neutral", 31000, 11500)
  ELSE IF v = "strong_neutral" THEN OneHigh("neutral", 88000, 2000)
  ELSE IF v = "faint_anger" THEN OneHigh("anger", 20002, 13333)
  ELSE IF v = "faint_neutral" THEN OneHigh("neutral", 20002, 13333)
  ELSE OneHigh("anger", 91000, 1500)

MaxCalls == 9             \* predict_emotion calls in one run of the smoother

\* One call of ModelService.predict_emotion on the service, the network
\* answering with the raw vector v.  The log keeps what the call was given,
\* what it appended to the history, what it returned and the committed label
\* and stability count it left behind.
LogEntry(v, r) ==
  [probs |-> v,
   raw_emotion |-> r.service.emotion_history[Len(r.service.emotion_history)].emotion,
   current_emotion |-> r.service.current_emotion,
   emotion_stability_count |-> r.service.emotion_stability_count,
   emotion |-> r.emotion,
   confidence |-> r.confidence]

Logged(v, r) ==
  /\ model_service' = r.service
  /\ calls' = Append(calls, LogEntry(v, r))

PredictEmotion(v) ==
  /\ Len(calls) < MaxCalls
  /\ Logged(v, predict_emotion(model_service, RawVector(v)))
  /\ UNCHANGED <<stream, analyzed>>
  /\ UNCHANGED chainVars
  /\ UNCHANGED audioVars

(***************************************************************************)
(* app.py: the two endpoints that feed the smoother.  Both use the module  *)
(* global model_service.  What a request carries is abstracted to what the *)
(* audio path makes of it: it cannot be decoded (an exception before the   *)
(* classifier), it holds no speech, or it is speech for which the network  *)
(* returns one of the raw vectors.                                         *)
(***************************************************************************)
NSessions == 2            \* streaming connections
MaxChunks == 3            \* requests handled in one run, all endpoints together

Sessions == 1..NSessions
ChunkInputs == {"undecodable", "silence"} \cup RawInputs
BatchInputs == {"missing"} \cup ChunkInputs

Message(event, http, status, is_speech, emotion, confidence) ==
  [event |-> event, http |-> http, status |-> status, is_speech |-> is_speech,
   emotion |-> emotion, confidence |-> confidence]

\* if confidence < confidence_threshold: emotion = "neutral"
Thresholded(emotion, confidence) ==
  IF confidence < stream_confidence_threshold THEN "neutral" ELSE emotion

\* The success message built from what predict_emotion returned
Predicted(event, http, r) ==
  [service |-> r.service,
   message |-> Message(event, http, "success", TRUE,
                       Thresholded(r.emotion, r.confidence), r.confidence)]

\* handle_audio_stream on a service st: the service afterwards and the
\* message emitted to the sender.
StreamReply(st, chunk) ==
  IF chunk = "undecodable"
  THEN [service |-> st, message |-> Message("error", 0, "none", FALSE, "none", 0)]
  ELSE IF chunk = "silence"
  THEN [service |-> st,
        message |-> Message("emotion_result", 0, "no_speech", FALSE, "neutral", 0)]
  ELSE Predicted("emotion_result", 0, predict_emotion(st, RawVector(chunk)))

\* analyze_audio on a service st: the service afterwards and the response.
AnalyzeReply(st, input) ==
  IF input = "missing"
  THEN [service |-> st, message |-> Message("response", 400, "error", FALSE, "none", 0)]
  ELSE IF input = "undecodable"
  THEN [service |-> st, message |-> Message("response", 500, "error", FALSE, "none", 0)]
  ELSE IF input = "silence"
  THEN [service |-> st, message |-> Message("response", 200, "warning", FALSE, "neutral", 0)]
  ELSE Predicted("response", 200, predict_emotion(st, RawVector(input)))

Handled ==
  SeqSum([s \in Sessions |-> Len(stream[s].sent)]) + Len(analyzed)

Emitted(s, chunk, r) ==
  /\ model_service' = r.service
  /\ stream' = [stream EXCEPT ![s] = [sent |-> Append(@.sent, chunk),
                                       received |-> Append(@.received, r.message)]]

Responded(r) ==
  /\ model_service' = r.service
  /\ analyzed' = Append(analyzed, r.message)

\* @socketio.on('audio_stream'): session s sends a chunk
handle_audio_stream(s, chunk) ==
  /\ Handled < MaxChunks
  /\ Emitted(s, chunk, StreamReply(model_service, chunk))
  /\ UNCHANGED <<calls, analyzed>>
  /\ UNCHANGED chainVars
  /\ UNCHANGED audioVars

\* POST /api/analyze
analyze_audio(input) ==
  /\ Handled < MaxChunks
  /\ Responded(AnalyzeReply(model_service, input))
  /\ UNCHANGED <<calls, stream>>
  /\ UNCHANGED chainVars
  /\ UNCHANGED audioVars

(***************************************************************************)
(* audio_processor.py: the pure functions of AudioProcessor                *)
(*                                                                         *)
(* A waveform is a sequence of runs; a run is n samples of amplitude a     *)
(* (in units of 1/1000), all positive or alternating in sign.  The sample  *)
(* rate is the constructor argument; the model runs the voice-activity     *)
(* detector and the speech-rate estimator at a low rate so that a frame is *)
(* a few samples, every length in the code being derived from it as the    *)
(* code derives it.  The feature extractor's lengths do not depend on the  *)
(* sample rate and keep their values.                                      *)
(***************************************************************************)
sample_rate == 400              \* AudioProcessor(sample_rate), 16000 by default
MaxRuns == 3                    \* runs in one waveform

n_mfcc == 40
n_fft == 2048
hop_length == 512
speech_energy_threshold == 15   \* 0.015
silence_energy_threshold == 8   \* 0.008
delta_width == 9                \* librosa.feature.delta(mfccs): width=9
n_chroma == 12                  \* librosa.feature.chroma_stft: 12 bins
n_mels == 128                   \* librosa.feature.melspectrogram: 128 bands
n_contrast == 7                 \* librosa.feature.spectral_contrast: 6 bands + 1
n_stats == 6                    \* zcr, rmse and pitch: mean and std each
ser_features == 180
asr_features == 13
min_peak_height == 50           \* max(0.05, ...)

RunLengths == {4, 50}
LongRunLengths == {2048, 4096}
Amplitudes == {0, 5, 300}

Runs == {r \in [n : RunLengths, a : Amplitudes, alt : BOOLEAN] : r.alt => r.a = 300}
LongRuns == {r \in [n : LongRunLengths, a : Amplitudes, alt : {FALSE}] : r.a # 5}

\* The waveforms given to detect_speech and calculate_speech_rate, the empty
\* one among them, and the longer ones given to the feature extractors.
Waveforms == UNION {[1..k -> Runs] : k \in 0..MaxRuns}
LongWaveforms == UNION {[1..k -> LongRuns] : k \in 1..2}

WaveLen(w) == SeqSum([k \in 1..Len(w) |-> w[k].n])

RunSamples(r) == [i \in 1..r.n |-> IF r.alt /\ i % 2 = 0 THEN 0 - r.a ELSE r.a]

RECURSIVE Samples(_)
Samples(w) == IF w = <<>> THEN <<>> ELSE RunSamples(Head(w)) \o Samples(Tail(w))

Abs(v) == IF v < 0 THEN 0 - v ELSE v
Max(a, b) == IF a > b THEN a ELSE b
Min(a, b) == IF a < b THEN a ELSE b

\* What a call returned or raised.  Only the fields of the function called
\* carry a meaning.
NoOutcome ==
  [raised |-> "none", has_speech |-> FALSE, length |-> 0, kept |-> 0, zeros |-> 0,
   num_syllables |-> 0, speech_frames |-> 0, speech_rate |-> 0]

Raises(exc) == [NoOutcome EXCEPT !.raised = exc]

\* frame_length = int(0.025 * self.sample_rate); hop_length = int(0.010 * self.sample_rate)
frame_length == (25 * sample_rate) \div 1000
vad_hop_length == (10 * sample_rate) \div 1000

\* np.mean(np.abs(audio_data)) > energy_threshold; the mean of no samples
\* is nan, and nan > threshold is False
MeanAbsCheck(x) ==
  Len(x) > 0 /\ SeqSum([i \in 1..Len(x) |-> Abs(x[i])]) > speech_energy_threshold * Len(x)

\* AudioProcessor.detect_speech on the samples x.  librosa.util.frame raises
\* ParameterError when the input is shorter than one frame.  The
\* zero-crossing rate is taken over the signal padded by half a frame of edge
\* values on both sides; a sample is negative when it is below zero.
DetectSpeechIn(x) ==
  IF Len(x) < frame_length THEN Raises("ParameterError")
  ELSE
    LET n == Len(x)
        n_frames == 1 + (n - frame_length) \div vad_hop_length
        \* np.sum(frames**2, axis=1) / frame_length > energy_threshold, in 1/1000000
        frame_energy(f) ==
          SeqSum([i \in 1..frame_length |-> x[f * vad_hop_length + i] * x[f * vad_hop_length + i]])
        speech_frames ==
          Cardinality({f \in 0..(n_frames - 1) :
                         frame_energy(f) > 1000 * speech_energy_threshold * frame_length})
        half == frame_length \div 2
        padded(j) == x[Min(n, Max(1, j - half))]
        n_zcr == 1 + (n + 2 * half - frame_length) \div vad_hop_length
        crossings(f) ==
          Cardinality({i \in 2..frame_length :
                         (padded(f * vad_hop_length + i) < 0)
                           # (padded(f * vad_hop_length + i - 1) < 0)})
        \* z > 0.1 with z = crossings / frame_length
        high_zcr_frames ==
          Cardinality({f \in 0..(n_zcr - 1) : 10 * crossings(f) > frame_length})
    IN
    IF n_frames > 0
    THEN [NoOutcome EXCEPT !.has_speech =
            \/ 100 * speech_frames > 15 * n_frames
            \/ /\ 10 * speech_frames > n_frames
               /\ n_zcr > 0
               /\ 100 * high_zcr_frames > 5 * n_zcr]
    ELSE [NoOutcome EXCEPT !.has_speech = MeanAbsCheck(x)]

detect_speech(w) == DetectSpeechIn(Samples(w))

\* librosa.effects.trim(audio_data, top_db=30), to the grain of a run: the
\* leading and trailing runs more than 30 dB (a factor 0.0316) below the
\* loudest one are cut; an all-zero signal is kept whole.
PeakAmplitude(w) ==
  IF w = <<>> THEN 0
  ELSE CHOOSE a \in {w[k].a : k \in 1..Len(w)} : \A k \in 1..Len(w) : w[k].a <= a

NonSilentRuns(w) ==
  {k \in 1..Len(w) : PeakAmplitude(w) = 0 \/ 10000 * w[k].a > 316 * PeakAmplitude(w)}

TrimmedLen(w) ==
  IF NonSilentRuns(w) = {} THEN 0
  ELSE LET first == CHOOSE k \in NonSilentRuns(w) : \A j \in NonSilentRuns(w) : k <= j
           last == CHOOSE k \in NonSilentRuns(w) : \A j \in NonSilentRuns(w) : j <= k
       IN SeqSum([k \in 1..Len(w) |-> IF first <= k /\ k <= last THEN w[k].n ELSE 0])

\* if len(features) > size: features[:size]; elif len(features) < size:
\* np.pad(features, (0, size - len(features)), 'constant')
FixLength(raw_count, size) ==
  IF raw_count > size
  THEN [NoOutcome EXCEPT !.length = size, !.kept = size]
  ELSE IF raw_count < size
  THEN [NoOutcome EXCEPT !.length = raw_count + (size - raw_count),
                         !.kept = raw_count, !.zeros = size - raw_count]
  ELSE [NoOutcome EXCEPT !.length = raw_count, !.kept = raw_count]

\* The statistics concatenated by extract_features: mean and std of the
\* MFCCs, the means of their two deltas, chroma, mel and contrast means, and
\* six scalars.
RawFeatureCount == 4 * n_mfcc + n_chroma + n_mels + n_contrast + n_stats

\* Frames of a centred short-time transform
FrameCount(n) == 1 + n \div hop_length

\* AudioProcessor.extract_features.  The trimmed signal replaces the
\* original unless it is shorter than half of it.  librosa.feature.delta
\* raises ParameterError when there are fewer frames than its width; nothing
\* in the function catches it.
extract_features(w) ==
  LET n == WaveLen(w)
      trimmed == IF 2 * TrimmedLen(w) < n THEN n ELSE TrimmedLen(w)
  IN IF FrameCount(trimmed) < delta_width THEN Raises("ParameterError")
     ELSE FixLength(RawFeatureCount, ser_features)

\* AudioProcessor.extract_features_for_asr: 13 MFCC means, and np.zeros(13)
\* when anything in the try block raises (the empty waveform).
extract_features_for_asr(w) ==
  IF WaveLen(w) = 0
  THEN [NoOutcome EXCEPT !.length = asr_features, !.zeros = asr_features]
  ELSE FixLength(asr_features, asr_features)

window_size == (2 * sample_rate) \div 100        \* int(self.sample_rate * 0.02)
peak_distance == sample_rate \div 10             \* int(self.sample_rate * 0.1)
min_frames == (2 * sample_rate) \div 10          \* int(min_silence_duration * self.sample_rate)

\* scipy.signal.find_peaks, distance condition, on peaks given as
\* <<height, index>>: from the highest peak down (the later one first among
\* equals), a peak that is kept removes every other peak closer than the
\* distance.
RECURSIVE SelectByDistance(_, _)
SelectByDistance(kept, todo) ==
  IF todo = {} THEN kept
  ELSE LET j == CHOOSE p \in todo :
                  \A q \in todo \ {p} :
                    p[1] > q[1] \/ (p[1] = q[1] /\ p[2] > q[2])
       IN SelectByDistance(kept \cup {j},
                           {p \in todo \ {j} : Abs(p[2] - j[2]) >= peak_distance})

\* np.convolve(energy, np.ones(window_size) / window_size, mode='same') on
\* the n samples x: the middle m = max(n, window_size) entries of the full
\* convolution, kept as window sums (window_size times the envelope).
EnergySmooth(x, n, m, offset) ==
  [k \in 0..(m - 1) |->
     SeqSum([t \in 1..window_size |->
               IF 1 <= k + offset - window_size + t + 1 /\ k + offset - window_size + t + 1 <= n
               THEN Abs(x[k + offset - window_size + t + 1]) ELSE 0])]

ConvolveSame(x, n) ==
  EnergySmooth(x, n, Max(n, window_size),
               (Min(n, window_size) - 1) - (Min(n, window_size) \div 2))

\* The rest of calculate_speech_rate, from the smoothed envelope of m entries
\* of a waveform of n samples.
SpeechRateFrom(n, m, energy_smooth, energy_mean, energy_var) ==
  LET \* height >= max(0.05, energy_mean + 0.5 * energy_std)
      HighEnough(k) ==
        /\ energy_smooth[k] >= min_peak_height * window_size
        /\ energy_smooth[k] >= energy_mean
        /\ 4 * (energy_smooth[k] - energy_mean) * (energy_smooth[k] - energy_mean)
             >= energy_var
      \* the last index of the flat stretch that starts at k
      PlateauEnd(k) ==
        CHOOSE r \in k..(m - 1) :
          /\ r = m - 1 \/ energy_smooth[r + 1] # energy_smooth[k]
          /\ \A j \in k..r : energy_smooth[j] = energy_smooth[k]
      \* a local maximum: the middle of a flat stretch that starts above the
      \* sample before it and ends above the sample after it
      maxima ==
        {(l + PlateauEnd(l)) \div 2 :
           l \in {k \in 1..(m - 2) :
                    /\ energy_smooth[k - 1] < energy_smooth[k]
                    /\ PlateauEnd(k) < m - 1
                    /\ energy_smooth[PlateauEnd(k) + 1] < energy_smooth[k]}}
      num_syllables ==
        Cardinality(SelectByDistance({}, {<<energy_smooth[k], k>> : k \in {p \in maxima : HighEnough(p)}}))
      is_silence(k) == energy_smooth[k] < silence_energy_threshold * window_size
      \* the last index of the silence group that starts at k
      GroupEnd(k) ==
        CHOOSE r \in k..(m - 1) :
          /\ r = m - 1 \/ ~is_silence(r + 1)
          /\ \A j \in k..r : is_silence(j)
      \* the length of the silence group that starts at k, 0 if none does
      GroupLength(k) ==
        IF is_silence(k) /\ (k = 0 \/ ~is_silence(k - 1)) THEN GroupEnd(k) - k + 1 ELSE 0
      long_silence_frames ==
        SeqSum([k \in 1..m |->
                  IF GroupLength(k - 1) >= min_frames THEN GroupLength(k - 1) ELSE 0])
      speech_frames == n - long_silence_frames
  IN
  [NoOutcome EXCEPT
     !.num_syllables = num_syllables,
     !.speech_frames = speech_frames,
     !.speech_rate = IF speech_frames > 0 /\ num_syllables > 0
                     THEN (1000 * num_syllables * sample_rate) \div speech_frames
                     ELSE 0]

\* np.mean and np.std of the envelope, the variance in place of the deviation
EnvelopeMean(energy_smooth, m) == SeqSum([k \in 1..m |-> energy_smooth[k - 1]]) \div m

EnvelopeVar(energy_smooth, m, energy_mean) ==
  Max(0, SeqSum([k \in 1..m |-> energy_smooth[k - 1] * energy_smooth[k - 1]]) \div m
           - energy_mean * energy_mean)

SpeechRateOfEnvelope(n, m, energy_smooth, energy_mean) ==
  SpeechRateFrom(n, m, energy_smooth, energy_mean, EnvelopeVar(energy_smooth, m, energy_mean))

SpeechRateOfSamples(n, m, energy_smooth) ==
  SpeechRateOfEnvelope(n, m, energy_smooth, EnvelopeMean(energy_smooth, m))

\* AudioProcessor.calculate_speech_rate on the samples x, in thousandths of a
\* syllable per second.  np.convolve raises ValueError on an empty array.
SpeechRateIn(x) ==
  IF Len(x) = 0 THEN Raises("ValueError")
  ELSE SpeechRateOfSamples(Len(x), Max(Len(x), window_size), ConvolveSame(x, Len(x)))

calculate_speech_rate(w) == SpeechRateIn(Samples(w))

\* A call of one of the four functions on a waveform
AudioCall(fn, w, outcome) == [fn |-> fn, waveform |-> w, outcome |-> outcome]

NoAudioCall == AudioCall("none", <<>>, NoOutcome)

DetectSpeech ==
  /\ audio_call.fn = "none" /\ audio_call.waveform \in Waveforms
  /\ audio_call' = AudioCall("detect_speech", audio_call.waveform,
                             detect_speech(audio_call.waveform))
  /\ UNCHANGED chainVars
  /\ UNCHANGED serviceVars

ExtractFeatures ==
  /\ audio_call.fn = "none"
  /\ audio_call' = AudioCall("extract_features", audio_call.waveform,
                             extract_features(audio_call.waveform))
  /\ UNCHANGED chainVars
  /\ UNCHANGED serviceVars

ExtractFeaturesForAsr ==
  /\ audio_call.fn = "none"
  /\ audio_call' = AudioCall("extract_features_for_asr", audio_call.waveform,
                             extract_features_for_asr(audio_call.waveform))
  /\ UNCHANGED chainVars
  /\ UNCHANGED serviceVars

CalculateSpeechRate ==
  /\ audio_call.fn = "none" /\ audio_call.waveform \in Waveforms
  /\ audio_call' = AudioCall("calculate_speech_rate", audio_call.waveform,
                             calculate_speech_rate(audio_call.waveform))
  /\ UNCHANGED chainVars
  /\ UNCHANGED serviceVars

(***************************************************************************)
(* audio_processor.py and app.py: from the bytes of a request to the       *)
(* answer.  Samples before pre-emphasis are in units of 1/1000, after it   *)
(* in units of 1/100000, after normalisation in units of 1/1000 again.     *)
(***************************************************************************)
\* Integer division that rounds towards zero
Quotient(a, b) == IF a >= 0 THEN a \div b ELSE 0 - ((0 - a) \div b)

\* np.append(audio_data[0], audio_data[1:] - coef * audio_data[:-1]) with
\* coef = 0.97, on a non-empty signal
_apply_preemphasis(x) ==
  [i \in 1..Len(x) |-> IF i = 1 THEN 100 * x[1] ELSE 100 * x[i] - 97 * x[i - 1]]

\* np.abs(audio_data).max()
PeakOf(y) ==
  CHOOSE m \in {Abs(y[i]) : i \in 1..Len(y)} : \A i \in 1..Len(y) : Abs(y[i]) <= m

\* if np.abs(audio_data).max() > 0: return audio_data / np.abs(audio_data).max()
DividedBy(y, peak) ==
  IF peak > 0
  THEN [i \in 1..Len(y) |-> Quotient(1000 * y[i], peak)]
  ELSE [i \in 1..Len(y) |-> Quotient(y[i], 100)]

_normalize_audio(y) == DividedBy(y, PeakOf(y))

\* AudioProcessor.process_audio_file on the signal librosa.load returned
process_audio_file(x) == _normalize_audio(_apply_preemphasis(x))

\* One second of a sine wave of amplitude a that starts at phase 0, eight
\* samples to the period
SineTable == <<0, 707, 1000, 707, 0, -707, -1000, -707>>

SineSamples(a) ==
  [i \in 1..sample_rate |-> Quotient(a * SineTable[((i - 1) % Len(SineTable)) + 1], 1000)]

SineAmplitudes == {10, 300}

\* The body of an audio_stream event: a base64 string, correctly padded or
\* not, that holds the float32 samples of a waveform and possibly one byte
\* more; a string that is not correctly padded holds nothing that counts.
PayloadWaves ==
  {<<>>, <<[n |-> 4, a |-> 300, alt |-> TRUE]>>, <<[n |-> 50, a |-> 300, alt |-> TRUE]>>,
   <<[n |-> 50, a |-> 5, alt |-> FALSE]>>, <<[n |-> sample_rate, a |-> 300, alt |-> TRUE]>>}

Payloads ==
  {p \in [padding_ok : BOOLEAN, extra_bytes : {0, 1}, wave : PayloadWaves] :
     ~p.padding_ok => (p.wave = <<>> /\ p.extra_bytes = 0)}

PayloadBytes(p) == 4 * WaveLen(p.wave) + p.extra_bytes

\* AudioProcessor.decode_audio_data.  base64.b64decode raises binascii.Error
\* on incorrect padding, np.frombuffer raises ValueError when the buffer is
\* not a whole number of 4-byte samples, and audio_data[0] raises IndexError
\* on the empty array; nothing in the function catches them.
decode_audio_data(p) ==
  IF ~p.padding_ok THEN Raises("binascii.Error")
  ELSE IF PayloadBytes(p) % 4 # 0 THEN Raises("ValueError")
  ELSE IF WaveLen(p.wave) = 0 THEN Raises("IndexError")
  ELSE [NoOutcome EXCEPT !.length = WaveLen(p.wave)]

default_sample_rate == 16000   \* def __init__(self, sample_rate=16000)

\* What a handler does with a signal x: detect_speech, and when it found
\* speech extract_features, whose delta step needs delta_width frames
\* whatever the trim kept; the extractor sees the signal at the rate app.py
\* constructs its AudioProcessor with.  The first exception ends the try
\* block.
Analysed(x) ==
  LET d == DetectSpeechIn(x)
  IN IF d.raised # "none" \/ ~d.has_speech THEN d
     ELSE IF FrameCount((Len(x) * default_sample_rate) \div sample_rate) < delta_width
     THEN [d EXCEPT !.raised = "ParameterError"]
     ELSE [d EXCEPT !.length = ser_features]

SeenAsSpeech(o, v) == IF o.raised # "none" THEN "undecodable" ELSE v

\* The input as the handlers of app.py see it: an exception is answered by
\* the except branch, no speech by the no-speech answer, and speech goes to
\* predict_emotion, the network answering with the raw vector v.
Seen(o, v) ==
  IF o.raised # "none" THEN "undecodable"
  ELSE IF ~o.has_speech THEN "silence"
  ELSE v

\* try: decode_audio_data ... detect_speech ... extract_features
HandlerTry(p) ==
  IF decode_audio_data(p).raised # "none" THEN decode_audio_data(p)
  ELSE Analysed(_normalize_audio(_apply_preemphasis(Samples(p.wave))))

\* What the try block of each handler comes to, for every request body, as
\* pairs <<body, outcome>>
HandlerOutcome == {<<p, HandlerTry(p)>> : p \in Payloads}
SineOutcome == {<<a, Analysed(process_audio_file(SineSamples(a)))>> : a \in SineAmplitudes}
OutcomeOf(table, body) == (CHOOSE pair \in table : pair[1] = body)[2]

PayloadCall(fn, s, p, outcome) ==
  [fn |-> fn, waveform |-> p.wave, session |-> s, payload |-> p, outcome |-> outcome]

\* POST /api/analyze with a file that holds one second of a sine wave
AnalyzeSine(a, v) ==
  /\ Handled < MaxChunks
  /\ LET o == OutcomeOf(SineOutcome, a)
     IN /\ Responded(AnalyzeReply(model_service, Seen(o, v)))
        /\ audio_call' = AudioCall("analyze_audio", <<[n |-> sample_rate, a |-> a, shape |-> "sine"]>>, o)
  /\ UNCHANGED <<calls, stream>>
  /\ UNCHANGED chainVars

\* @socketio.on('audio_stream'): session s sends the payload p
HandlePayload(s, p, v) ==
  /\ Handled < MaxChunks
  /\ LET o == OutcomeOf(HandlerOutcome, p)
     IN /\ Emitted(s, Seen(o, v), StreamReply(model_service, Seen(o, v)))
        /\ audio_call' = PayloadCall("handle_audio_stream", s, p, o)
  /\ UNCHANGED <<calls, analyzed>>
  /\ UNCHANGED chainVars

(***************************************************************************)
(* The specifications.  Each part runs from the state after construction   *)
(* with the other parts at rest.                                           *)
(***************************************************************************)
ChainAtRest ==
  /\ TRANSFORMERS_AVAILABLE = "unset"
  /\ fs = [p \in Paths |-> 0]
  /\ call = [r \in Reqs |-> IdleCall]

\* initialize_models has run: one fresh ModelService, nothing handled yet
ServiceAtRest ==
  /\ model_service = FreshService
  /\ calls = <<>>
  /\ stream = [s \in Sessions |-> [sent |-> <<>>, received |-> <<>>]]
  /\ analyzed = <<>>

\* The fallback chain
ChainInit ==
  /\ libs_installed \in BOOLEAN
  /\ ChainAtRest
  /\ ServiceAtRest
  /\ audio_call = NoAudioCall

ChainNext ==
  \/ import_model_modules /\ UNCHANGED <<serviceVars, audioVars>>
  \/ \E r \in Reqs : AppStart(r) /\ UNCHANGED <<serviceVars, audioVars>>
  \/ \E r \in Reqs : AppLocal(r) /\ UNCHANGED <<serviceVars, audioVars>>
  \/ \E r \in Reqs : AppRest(r) /\ UNCHANGED <<serviceVars, audioVars>>
  \/ \E r \in Reqs : AppExhausted(r) /\ UNCHANGED <<serviceVars, audioVars>>
  \/ \E r \in Reqs : AppAlarm(r) /\ UNCHANGED <<serviceVars, audioVars>>
  \/ \E r \in Reqs : SvcStart(r) /\ UNCHANGED <<serviceVars, audioVars>>
  \/ \E r \in Reqs : SvcLocal(r) /\ UNCHANGED <<serviceVars, audioVars>>
  \/ \E r \in Reqs : WorkerFinish(r) /\ UNCHANGED <<serviceVars, audioVars>>
  \/ \E r \in Reqs : TimerExpire(r) /\ UNCHANGED <<serviceVars, audioVars>>
  \/ \E r \in Reqs : timeout_function(r) /\ UNCHANGED <<serviceVars, audioVars>>
  \/ \E r \in Reqs : SvcJoin(r) /\ UNCHANGED <<serviceVars, audioVars>>
  \/ \E r \in Reqs : SvcInterrupt(r) /\ UNCHANGED <<serviceVars, audioVars>>
  \/ \E r \in Reqs : SvcRest(r) /\ UNCHANGED <<serviceVars, audioVars>>
  \/ \E r \in Reqs : SvcExhausted(r) /\ UNCHANGED <<serviceVars, audioVars>>
  \/ \E r \in Reqs : DspStart(r) /\ UNCHANGED <<serviceVars, audioVars>>
  \/ \E r \in Reqs : DspLocal(r) /\ UNCHANGED <<serviceVars, audioVars>>
  \/ \E r \in Reqs : DspJoin(r) /\ UNCHANGED <<serviceVars, audioVars>>
  \/ \E r \in Reqs : DspRest(r) /\ UNCHANGED <<serviceVars, audioVars>>
  \/ \E r \in Reqs : DspExhausted(r) /\ UNCHANGED <<serviceVars, audioVars>>

SpecChain == ChainInit /\ [][ChainNext]_vars

\* The fallback chain serving two requests at once
PairReqs == {1, 2}

PairInit ==
  /\ libs_installed \in BOOLEAN
  /\ TRANSFORMERS_AVAILABLE = "unset"
  /\ fs = [p \in Paths |-> 0]
  /\ call = [r \in PairReqs |-> IdleCall]
  /\ ServiceAtRest
  /\ audio_call = NoAudioCall

PairNext ==
  \/ import_model_modules /\ UNCHANGED <<serviceVars, audioVars>>
  \/ \E r \in PairReqs : AppStart(r) /\ UNCHANGED <<serviceVars, audioVars>>
  \/ \E r \in PairReqs : AppLocal(r) /\ UNCHANGED <<serviceVars, audioVars>>
  \/ \E r \in PairReqs : AppRest(r) /\ UNCHANGED <<serviceVars, audioVars>>
  \/ \E r \in PairReqs : AppExhausted(r) /\ UNCHANGED <<serviceVars, audioVars>>
  \/ \E r \in PairReqs : AppAlarm(r) /\ UNCHANGED <<serviceVars, audioVars>>
  \/ \E r \in PairReqs : SvcStart(r) /\ UNCHANGED <<serviceVars, audioVars>>
  \/ \E r \in PairReqs : SvcLocal(r) /\ UNCHANGED <<serviceVars, audioVars>>
  \/ \E r \in PairReqs : WorkerFinish(r) /\ UNCHANGED <<serviceVars, audioVars>>
  \/ \E r \in PairReqs : TimerExpire(r) /\ UNCHANGED <<serviceVars, audioVars>>
  \/ \E r \in PairReqs : timeout_function(r) /\ UNCHANGED <<serviceVars, audioVars>>
  \/ \E r \in PairReqs : SvcJoin(r) /\ UNCHANGED <<serviceVars, audioVars>>
  \/ \E r \in PairReqs : SvcInterrupt(r) /\ UNCHANGED <<serviceVars, audioVars>>
  \/ \E r \in PairReqs : SvcRest(r) /\ UNCHANGED <<serviceVars, audioVars>>
  \/ \E r \in PairReqs : SvcExhausted(r) /\ UNCHANGED <<serviceVars, audioVars>>
  \/ \E r \in PairReqs : DspStart(r) /\ UNCHANGED <<serviceVars, audioVars>>
  \/ \E r \in PairReqs : DspLocal(r) /\ UNCHANGED <<serviceVars, audioVars>>
  \/ \E r \in PairReqs : DspJoin(r) /\ UNCHANGED <<serviceVars, audioVars>>
  \/ \E r \in PairReqs : DspRest(r) /\ UNCHANGED <<serviceVars, audioVars>>
  \/ \E r \in PairReqs : DspExhausted(r) /\ UNCHANGED <<serviceVars, audioVars>>

SpecPair == PairInit /\ [][PairNext]_vars

\* The smoother, called by one caller
SmootherInit ==
  /\ libs_installed = FALSE
  /\ ChainAtRest
  /\ ServiceAtRest
  /\ audio_call = NoAudioCall

SmootherNext == \E v \in RawInputs : PredictEmotion(v)

SpecSmoother == SmootherInit /\ [][SmootherNext]_vars

\* The smoother fed by a network that is never sure of its answer
FaintNext == \E v \in FaintInputs : PredictEmotion(v)

SpecFaint == SmootherInit /\ [][FaintNext]_vars

\* The streaming sessions and the batch endpoint on the one global service
StreamInit == SmootherInit

StreamNext ==
  \/ \E s \in Sessions, chunk \in ChunkInputs : handle_audio_stream(s, chunk)
  \/ \E input \in BatchInputs : analyze_audio(input)

SpecStream == StreamInit /\ [][StreamNext]_vars

\* The audio functions, each applied to a waveform drawn at the start
AudioInit ==
  /\ libs_installed = FALSE
  /\ ChainAtRest
  /\ ServiceAtRest
  /\ \E w \in Waveforms \cup LongWaveforms : audio_call = AudioCall("none", w, NoOutcome)

AudioNext ==
  \/ DetectSpeech
  \/ ExtractFeatures
  \/ ExtractFeaturesForAsr
  \/ CalculateSpeechRate

SpecAudio == AudioInit /\ [][AudioNext]_vars

\* The two audio endpoints, from the request body to the answer
RequestNext ==
  \/ \E a \in SineAmplitudes, v \in RawInputs : AnalyzeSine(a, v)
  \/ \E s \in Sessions, p \in Payloads, v \in RawInputs : HandlePayload(s, p, v)

SpecRequest == StreamInit /\ [][RequestNext]_vars
(***************************************************************************)
(* Claims about the fallback chain                                         *)
(***************************************************************************)
Done(r) == call[r].pc = "done"

\* C1: a call whose local attempt raised or was unavailable and whose three
\* remote attempts all answered 503 returns the synthetic distribution
\* (neutral 0.8, happy 0.1, sad 0.05, angry 0.05) with status success and
\* fallback metadata naming the exhaustion and the last error.
C1_ExhaustionGivesSynthetic ==
  \A r \in Reqs :
    (/\ Done(r)
     /\ call[r].local \in {"raised", "unconfigured"}
     /\ call[r].sent = max_retries
     /\ call[r].only503)
    => (/\ call[r].result.kind = "synthetic"
        /\ call[r].result.dist = fallback_result
        /\ call[r].result.status = "success"
        /\ call[r].result.meta # "none"
        /\ call[r].result.reason = "exhausted"
        /\ RetryableStatus(call[r].result.detail))

C5_TempFileRemoved ==
  \A r \in Reqs :
    (Done(r) /\ call[r].wrote) => \A p \in Paths : fs[p] # r

C5_Witness ==
  \E r \in Reqs :
    /\ Done(r) /\ call[r].wrote
    /\ call[r].local = "timeout"
    /\ call[r].result.kind = "internal_error"
    /\ \A p \in Paths : fs[p] = 0

\* C6: InferenceService.process_audio always ends by returning a result
\* dictionary, never by raising.
C6_ProcessAudioNeverRaises ==
  \A r \in Reqs :
    (Done(r) /\ call[r].impl = "svc") => call[r].result.exc = "none"

\* C12: every result the chain returns (local success, remote success,
\* terminal remote error, synthetic fallback, internal error) carries
\* provenance metadata: which attempt produced it or why the chain fell
\* through.
ChainOutcomes ==
  {"local_success", "remote_success", "terminal_error", "synthetic", "internal_error"}

C12_ProvenanceOnEveryOutcome ==
  \A r \in Reqs :
    (Done(r) /\ call[r].result.kind \in ChainOutcomes)
      => (call[r].result.meta # "none" /\ call[r].result.reason # "none")

\* The outcomes the claims call retryable: a transport timeout, a connection
\* error, HTTP 503
Retryable(o) == o.kind \in {"timeout", "conn"} \/ (o.kind = "http" /\ o.code = 503)

\* C19: a call sends at most max_retries requests to the remote service, and
\* sends a further request only when the one before it ended in a transport
\* timeout, a connection error or HTTP 503; after a 2xx answer or any other
\* status the call has ended.
C19_BoundedSelectiveRetry ==
  /\ [](\A r \in Reqs :
          /\ call[r].sent <= max_retries
          /\ (call[r].sent >= 1 /\ ~Retryable(call[r].last_outcome)) => Done(r))
  /\ [][\A r \in Reqs :
          (call'[r].sent = call[r].sent + 1 /\ call[r].sent >= 1)
            => Retryable(call[r].last_outcome)]_vars

C19_Witness ==
  \E r \in Reqs :
    /\ Done(r) /\ call[r].sent = max_retries
    /\ call[r].result.kind = "remote_success"
    /\ call[r].last_error.kind = "conn"

\* C20: the wait after the k-th retryable failure of a call is 2^k seconds
\* (2, 4, 8), whatever the failure was; there is one wait per retryable
\* failure and none before the first request or after a success or a
\* terminal error.
C20_BackoffSchedule ==
  \A r \in Reqs :
    /\ Len(call[r].sleeps) = call[r].retry_count
    /\ \A k \in 1..Len(call[r].sleeps) : call[r].sleeps[k] = 2 ^ k
    /\ \A k \in 2..Len(call[r].sleeps) : call[r].sleeps[k] > call[r].sleeps[k - 1]
    /\ call[r].sent = 0 => call[r].sleeps = <<>>
    /\ call[r].sent >= 1 =>
         Len(call[r].sleeps) =
           IF Retryable(call[r].last_outcome) THEN call[r].sent ELSE call[r].sent - 1

C20_Witness ==
  \E r \in Reqs :
    /\ call[r].sleeps = <<2, 4, 8>>
    /\ call[r].last_error.kind = "timeout"
    /\ call[r].result.kind = "synthetic"

\* C25: in a call that reached the local stage, a remote request is sent if
\* and only if the local attempt was not configured, timed out, raised or
\* produced no result; after a local result no remote request is sent; the
\* synthetic distribution is returned only after max_retries remote attempts
\* that each ended in a retryable failure.
C25_StageOrdering ==
  \A r \in Reqs :
    (Done(r) /\ call[r].wrote) =>
      /\ (call[r].sent >= 1)
           <=> (call[r].local \in {"unconfigured", "timeout", "raised", "empty"})
      /\ call[r].local = "success" => call[r].sent = 0
      /\ call[r].result.kind = "synthetic" =>
           (call[r].sent = max_retries /\ Len(call[r].sleeps) = max_retries)

\* C26: once the watcher of the local attempt has declared a timeout in a
\* call that is still running, the worker's result is not the result of the
\* call and the call goes on with the remote stage: it ends on the outcome of
\* a remote request, not on an exception.
C26_AbandonedWorker ==
  [][\A r \in Reqs :
       (call[r].timeout_occurred /\ ~Done(r)) =>
         /\ call'[r].result.kind # "local_success"
         /\ call'[r].result.exc = "none"
         /\ call'[r].pc = "done" => call'[r].sent >= 1]_vars

\* C27: while a request has written its temporary audio file and its local
\* attempt has not finished, the file at its path holds the bytes that request
\* wrote: no other request has overwritten or deleted it.
C27_TempFileIsolation ==
  \A r \in DOMAIN call :
    ( /\ call[r].wrote
      /\ call[r].pc \in {"local", "join"}
      /\ call[r].impl = "app" => TRANSFORMERS_AVAILABLE = "yes" )
      => fs[call[r].path] = r


(***************************************************************************)
(* Claims about the smoother                                               *)
(***************************************************************************)
\* The label a raw vector favours
Favoured(v) == emotions[argmax(RawVector(v))]

\* A high-confidence raw vector for a label other than neutral
IsSpike(v) ==
  /\ Favoured(v) # "neutral"
  /\ RawVector(v)[argmax(RawVector(v))] > high_confidence

\* The calls so far are 7 neutral ones on a fresh service, one spike, and
\* neutral ones from then on.
SpikeAfterSevenNeutral ==
  /\ Len(calls) >= 8
  /\ \A k \in 1..7 : Favoured(calls[k].probs) = "neutral"
  /\ IsSpike(calls[8].probs)
  /\ \A k \in 9..Len(calls) : Favoured(calls[k].probs) = "neutral"

\* C4: on a fresh service, after 7 calls whose raw vector favours neutral, one
\* high-confidence call for another label leaves the committed label neutral,
\* and it is still neutral after each neutral call that follows.
C4_SpikeDoesNotFlip ==
  SpikeAfterSevenNeutral => calls[Len(calls)].current_emotion = "neutral"

(***************************************************************************)
(* Claims about the sessions                                               *)
(***************************************************************************)
\* The messages a session would get for its chunks from a service of its own
RECURSIVE AloneReplies(_, _)
AloneReplies(st, chunks) ==
  IF chunks = <<>> THEN <<>>
  ELSE <<StreamReply(st, Head(chunks)).message>>
         \o AloneReplies(StreamReply(st, Head(chunks)).service, Tail(chunks))

Outputs(messages) ==
  [k \in 1..Len(messages) |-> <<messages[k].emotion, messages[k].confidence>>]

\* C7: the (label, confidence) outputs a streaming session receives are those
\* it would receive if no other session and no batch request had called the
\* smoother: they depend on its own chunks only.
C7_SessionIndependence ==
  \A s \in Sessions :
    Outputs(stream[s].received) = Outputs(AloneReplies(FreshService, stream[s].sent))

\* C14: every /api/analyze response and every audio_stream message carries a
\* status that is success, warning or error; the answer to audio without
\* speech is a warning with label neutral and confidence 0.
ResponseStatuses == {"success", "warning", "error"}

NoSpeechWarning(m) ==
  m.status = "warning" /\ m.emotion = "neutral" /\ m.confidence = 0

C14_StatusFieldDiscipline ==
  /\ \A k \in 1..Len(analyzed) : analyzed[k].status \in ResponseStatuses
  /\ \A s \in Sessions :
       \A k \in 1..Len(stream[s].received) :
         /\ stream[s].received[k].status \in ResponseStatuses
         /\ stream[s].sent[k] = "silence" => NoSpeechWarning(stream[s].received[k])

(***************************************************************************)
(* Claims about the audio functions                                        *)
(***************************************************************************)
Called(fn) == audio_call.fn = fn

\* C8: detect_speech returns a boolean and raises nothing for every waveform,
\* the empty one and those shorter than one 25 ms frame included; for these
\* the result is the mean-absolute-amplitude check against the energy
\* threshold.
C8_DetectSpeechTotal ==
  Called("detect_speech") =>
    /\ audio_call.outcome.raised = "none"
    /\ audio_call.outcome.has_speech \in BOOLEAN
    /\ WaveLen(audio_call.waveform) < frame_length =>
         audio_call.outcome.has_speech = MeanAbsCheck(Samples(audio_call.waveform))

\* C9: for every non-empty waveform extract_features returns exactly 180
\* entries and extract_features_for_asr exactly 13, the first entries of the
\* raw vector followed by zeros if it is shorter, and neither raises.
C9_FixedFeatureLength ==
  WaveLen(audio_call.waveform) > 0 =>
    /\ Called("extract_features") =>
         /\ audio_call.outcome.raised = "none"
         /\ audio_call.outcome.length = ser_features
         /\ audio_call.outcome.kept = Min(RawFeatureCount, ser_features)
         /\ audio_call.outcome.kept + audio_call.outcome.zeros = ser_features
    /\ Called("extract_features_for_asr") =>
         /\ audio_call.outcome.raised = "none"
         /\ audio_call.outcome.length = asr_features
         /\ audio_call.outcome.kept + audio_call.outcome.zeros = asr_features

\* C10: calculate_speech_rate returns a value that is never negative, and
\* exactly 0 for an all-zero waveform and whenever no peak was counted or the
\* speech-only duration is not positive.
C10_SpeechRateRange ==
  Called("calculate_speech_rate") =>
    /\ audio_call.outcome.raised = "none"
    /\ audio_call.outcome.speech_rate >= 0
    /\ (\/ PeakAmplitude(audio_call.waveform) = 0
        \/ audio_call.outcome.num_syllables = 0
        \/ audio_call.outcome.speech_frames <= 0)
         => audio_call.outcome.speech_rate = 0

\* C11: one second of a sine wave whose amplitude is below the energy
\* threshold of the voice-activity detector, sent to /api/analyze, is answered
\* with status warning, emotion neutral and confidence 0.
C11_QuietSineIsWarning ==
  (Called("analyze_audio") /\ audio_call.waveform[1].a < speech_energy_threshold)
    => NoSpeechWarning(analyzed[Len(analyzed)])

\* C13: for a payload that does not decode, is empty or is not a whole number
\* of samples, nothing in the streaming handler's try block raises and the
\* handler does not end in its exception branch.
Degenerate(p) ==
  ~p.padding_ok \/ PayloadBytes(p) % 4 # 0 \/ WaveLen(p.wave) = 0

C13_MalformedAudioAbsorbed ==
  (Called("handle_audio_stream") /\ Degenerate(audio_call.payload))
    => /\ audio_call.outcome.raised = "none"
       /\ LET received == stream[audio_call.session].received
          IN received[Len(received)].event # "error"

LastCall == calls[Len(calls)]

\* The committed label and the stability count before the last call
CommittedBefore ==
  IF Len(calls) = 1 THEN FreshService.current_emotion
  ELSE calls[Len(calls) - 1].current_emotion

StabilityBefore ==
  IF Len(calls) = 1 THEN FreshService.emotion_stability_count
  ELSE calls[Len(calls) - 1].emotion_stability_count

\* The winner of the vote of the last call
LastWinner == Winner(model_service.emotion_history)

Switched == LastCall.current_emotion # CommittedBefore

\* C15: every output whose label is not neutral has confidence at least 0.25,
\* on every return path of the smoothing step.
C15_ConfidenceFloor ==
  \A k \in 1..Len(calls) :
    calls[k].emotion # "neutral" => calls[k].confidence >= min_confidence_threshold

\* C16: on a call after which the stability count is below 2, the reported
\* label is the label committed before the call, or neutral if none was.
C16_OutputGating ==
  (Len(calls) >= 1 /\ LastCall.emotion_stability_count < 2)
    => LastCall.emotion = (IF CommittedBefore = "none" THEN "neutral" ELSE CommittedBefore)

\* The winner's weighted-average confidence reaches the committed label's
\* times the switch multiplier (a committed label with no entry left in the
\* history has none to reach)
ConfidentEnough(h, committed, winner) ==
  \/ emotion_counts(h, committed) = 0
  \/ 100 * AvgConfidence(h, winner)
       >= AvgConfidence(h, committed) * SwitchThreshold(committed, winner)

\* C17: when the winner differs from the committed label, the committed label
\* changes only if the stability count is below 3 or the winner's confidence
\* reaches the committed label's times the switch multiplier; otherwise it is
\* unchanged.
C17_HysteresisRule ==
  (/\ Len(calls) >= 1
   /\ CommittedBefore # "none"
   /\ LastWinner # CommittedBefore
   /\ StabilityBefore >= 3
   /\ ~ConfidentEnough(model_service.emotion_history, CommittedBefore, LastWinner))
    => ~Switched

\* C18: a call sets the stability count to 1 if the committed label switched
\* on it, and otherwise to one more than before.
C18_StabilityCounterUpdate ==
  Len(calls) >= 1 =>
    LastCall.emotion_stability_count = (IF Switched THEN 1 ELSE StabilityBefore + 1)

\* A step that is one smoothing call
CallStep == Len(calls') = Len(calls) + 1

\* C21: the history holds min(n, 8) entries after n smoothing calls; every
\* call appends one entry, the rejected ones included, and once 8 are held the
\* oldest is dropped and the others keep their order.
C21_BoundedHistory ==
  /\ [](Len(model_service.emotion_history) = (IF Len(calls) < 8 THEN Len(calls) ELSE 8))
  /\ [][CallStep =>
          LET h == model_service.emotion_history
              h2 == model_service'.emotion_history
              dropped == Len(h) + 1 - Len(h2)
          IN /\ dropped = (IF Len(h) = 8 THEN 1 ELSE 0)
             /\ \A k \in 1..(Len(h2) - 1) : h2[k] = h[k + dropped]
             /\ h2[Len(h2)].emotion = calls'[Len(calls')].raw_emotion]_vars

C21_Witness ==
  /\ Len(calls) = 9
  /\ Len(model_service.emotion_history) = 8
  /\ LastWinner # LastCall.current_emotion

\* C22: the first call sets the moving average to the raw vector, every later
\* call to 0.3 raw + 0.7 previous, entry by entry; the label the call appends
\* to the history is the argmax of the updated average.
C22_EmaUpdate ==
  [][CallStep =>
       LET raw == RawVector(calls'[Len(calls')].probs)
           ema == model_service.ema_probs
           ema2 == model_service'.ema_probs
       IN /\ Len(calls) = 0 => ema2 = raw
          /\ Len(calls) > 0 =>
               ema2 = [i \in 1..Len(raw) |-> (3 * raw[i] + 7 * ema[i]) \div 10]
          /\ calls'[Len(calls')].raw_emotion = emotions[argmax(ema2)]]_vars

C22_Witness ==
  /\ Len(calls) >= 2
  /\ LastCall.raw_emotion # Favoured(LastCall.probs)

\* C23: the history entry at position i, 0 the oldest, adds (1 + 0.6 i)^2 to
\* the weighted count of its label.  In units of 1/25 that is (5 + 3 i)^2.
C23_RecencyWeights ==
  \A e \in HistoryLabels(model_service.emotion_history) :
    emotion_counts(model_service.emotion_history, e)
      = SeqSum([k \in 1..Len(model_service.emotion_history) |->
                 IF model_service.emotion_history[k].emotion = e
                 THEN (5 + 3 * (k - 1)) * (5 + 3 * (k - 1)) ELSE 0])

\* C24: on a call that does not end in the neutral floor, the reported
\* confidence is the reported label's weighted-average confidence times
\* min(1, stability count / 5), the count taken after the call.
C24_ReportedConfidence ==
  (Len(calls) >= 1 /\ ~(LastCall.emotion = "neutral" /\ LastCall.confidence = 400000))
    => LastCall.confidence * 5
         \in LET scaled == AvgConfidence(model_service.emotion_history, LastCall.emotion)
                             * (IF LastCall.emotion_stability_count < 5
                                THEN LastCall.emotion_stability_count ELSE 5)
             IN (scaled - 4)..scaled

C30_ConfidenceBounded ==
  \A k \in 1..Len(calls) : calls[k].confidence >= 0 /\ calls[k].confidence <= 1000000
====
